---------------------------- MODULE Spec2Model ----------------------------
(***************************************************************************)
(* Cost-of-living estimator: the cost model (src/src/cost_model.py) and    *)
(* the price index resolver (src/src/rpp.py).                              *)
(*                                                                         *)
(* Python floats are modelled by exact decimal arithmetic.  Money in the   *)
(* cost model is a fixed-point integer counted in 1/Money of a dollar; the *)
(* lifestyle multipliers are counted in twentieths (every multiplier of    *)
(* the source is a multiple of 0.05) and the index multiplier in tenths.   *)
(***************************************************************************)
EXTENDS Integers, Sequences, FiniteSets, TLC

VARIABLES
    inp,            \* cost model: the Inputs record of the request
    rpp_index,      \* cost model: the price index of the request
    basket_file,    \* cost model: content of data/base_basket_us.json
    out,            \* cost model: the mapping returned by the last call
    loads,          \* cost model: number of load_base_basket() calls so far
    monthly_cost,   \* income: argument monthly_cost, in dollars
    savings_rate,   \* income: argument savings_rate, in percent
    effective_tax_rate, \* income: argument effective_tax_rate, in percent
    buffer,         \* income: argument buffer, in percent
    income,         \* income: what recommend_income returned or raised
    df,             \* resolver: the RPP table passed to get_state_rpp
    state_name,     \* resolver: the location name passed to get_state_rpp
    rpp_result      \* resolver: what get_state_rpp returned or raised

costVars == <<inp, rpp_index, basket_file, out, loads>>
incomeVars == <<monthly_cost, savings_rate, effective_tax_rate, buffer, income>>
rppVars == <<df, state_name, rpp_result>>
vars == <<costVars, incomeVars, rppVars>>

(***************************** bounds ***************************************)
MaxAdults == 2
MaxKids == 2
MaxCars == 1
MaxDeviations == 2
MaxCalls == 2
NumRows == 3

(************************** fixed-point scales ******************************)
\* multipliers are counted in 1/MultScale, the index multiplier in 1/RppScale
MultScale == 20
RppScale == 10
Money == MultScale * MultScale * MultScale * RppScale

\* a numerator counted in 1/scale, counted in 1/Money instead
Fix(x, scale) == x * (Money \div scale)

Max(a, b) == IF a >= b THEN a ELSE b

(***************************** Inputs ***************************************)
HousingModes == {"Rent", "Own"}
Bedrooms == {"Studio", "1BR", "2BR", "3BR+"}
Levels == {"Low", "Medium", "High"}
Styles == {"Budget", "Standard", "Premium"}
InsuranceLevels == {"Basic", "Standard", "Premium"}
TravelLevels == {"None", "Occasional", "Frequent"}

Inputs ==
    [state : {"New Jersey"},
     adults : 1..MaxAdults,
     kids : 0..MaxKids,
     housing_mode : HousingModes,
     bedrooms : Bedrooms,
     premium_area : BOOLEAN,
     cars : 0..MaxCars,
     transit : Levels,
     groceries : Styles,
     dining_out : Levels,
     insurance : InsuranceLevels,
     gym : BOOLEAN,
     entertainment : Levels,
     travel : TravelLevels]

Fields == {"adults", "kids", "housing_mode", "bedrooms", "premium_area", "cars",
           "transit", "groceries", "dining_out", "insurance", "gym",
           "entertainment", "travel"}

NeutralProfile ==
    [state |-> "New Jersey", adults |-> 1, kids |-> 0, housing_mode |-> "Rent",
     bedrooms |-> "1BR", premium_area |-> FALSE, cars |-> 0, transit |-> "Medium",
     groceries |-> "Standard", dining_out |-> "Medium", insurance |-> "Standard",
     gym |-> FALSE, entertainment |-> "Medium", travel |-> "None"]

(*************************** base basket ************************************)
BasketKeys == {"housing_1br", "utilities", "groceries", "dining_out_base",
               "transport_base", "healthcare", "misc"}
ChildKeys == {"groceries_per_child", "healthcare_per_child", "childcare_per_child"}

ScenarioAdult ==
    [housing_1br |-> 1500, utilities |-> 150, groceries |-> 400,
     dining_out_base |-> 250, transport_base |-> 150, healthcare |-> 300,
     misc |-> 200]
ZeroAdult == [k \in BasketKeys |-> 0]

ChildA == [groceries_per_child |-> 250, healthcare_per_child |-> 150,
           childcare_per_child |-> 900]
ChildB == [groceries_per_child |-> 0, healthcare_per_child |-> 100,
           childcare_per_child |-> 1200]

Baskets ==
    {[monthly_usd_single_adult |-> a, child_monthly |-> c] :
        a \in {ScenarioAdult, ZeroAdult}, c \in {ChildA, ChildB}}

Indices == {50, 100, 150, 200}

(************************** cost_model.py ***********************************)
load_base_basket == basket_file

bedroom_mult(i) ==
    CASE i.bedrooms = "Studio" -> 16
      [] i.bedrooms = "1BR" -> 20
      [] i.bedrooms = "2BR" -> 27
      [] i.bedrooms = "3BR+" -> 34

level3(v, low, mid, high) ==
    CASE v \in {"Low", "Budget", "Basic", "None"} -> low
      [] v \in {"Medium", "Standard", "Occasional"} -> mid
      [] v \in {"High", "Premium", "Frequent"} -> high

\* multipliers in twentieths (housing_mult in 1/8000), travel_add in dollars
multipliers(i) ==
    LET premium_mult == IF i.premium_area THEN 23 ELSE 20
        own_mult == IF i.housing_mode = "Rent" THEN 20 ELSE 19
    IN  [housing_mult |-> bedroom_mult(i) * premium_mult * own_mult,
         groceries_mult |-> level3(i.groceries, 17, 20, 25),
         dining_mult |-> level3(i.dining_out, 14, 20, 30),
         transit_mult |-> level3(i.transit, 22, 20, 17),
         insurance_mult |-> level3(i.insurance, 17, 20, 25),
         entertainment_mult |-> level3(i.entertainment, 16, 20, 27),
         travel_add |-> level3(i.travel, 0, 120, 320)]

CategoryOrder == <<"Housing", "Utilities", "Groceries", "Dining Out",
                   "Transportation", "Healthcare", "Childcare", "Misc", "Travel">>
Categories == {CategoryOrder[n] : n \in 1..Len(CategoryOrder)}

\* sum(out.values()) over the nine categories, in insertion order
RECURSIVE SumValuesSkippingTravel(_, _)
SumValuesSkippingTravel(f, n) ==
    IF n = 0 THEN 0
    ELSE SumValuesSkippingTravel(f, n - 1)
         + (IF CategoryOrder[n] = "Travel" THEN 0 ELSE f[CategoryOrder[n]])

RECURSIVE SumValues(_, _)
SumValues(f, n) == IF n = 0 THEN 0 ELSE SumValues(f, n - 1) + f[CategoryOrder[n]]

\* rpp_index / 100.0, in tenths
rpp_floor_division(index) == (index \div 100) * RppScale

rpp_of(index) == (index * RppScale) \div 100

extra_adults_off_by_one(i) == Max(i.adults - 2, 0)

extra_adults_of(i) == Max(i.adults - 1, 0)

adult_groceries_scale(i) == 20 + 14 * extra_adults_of(i)
adult_misc_scale(i) == 20 + 12 * extra_adults_of(i)
adult_health_scale(i) == 20 + 11 * extra_adults_of(i)

housing_of(b, i, rpp) ==
    Fix(b.housing_1br * multipliers(i).housing_mult * rpp,
        MultScale * MultScale * MultScale * RppScale)

utilities_of(b, i, rpp) ==
    Fix(b.utilities * (20 + 7 * extra_adults_of(i) + 4 * i.kids) * rpp,
        MultScale * RppScale)

groceries_of(b, c, i, rpp) ==
    Fix(b.groceries * adult_groceries_scale(i) * multipliers(i).groceries_mult * rpp,
        MultScale * MultScale * RppScale)
    + Fix(c.groceries_per_child * i.kids * rpp, RppScale)

dining_of(b, i, rpp) ==
    Fix(b.dining_out_base * (20 + 7 * extra_adults_of(i)) * multipliers(i).dining_mult * rpp,
        MultScale * MultScale * RppScale)

transport_of(b, i, rpp) ==
    LET transport == Fix(b.transport_base * multipliers(i).transit_mult
                            * (20 + 7 * extra_adults_of(i)) * rpp,
                         MultScale * MultScale * RppScale)
        car_add == Fix(i.cars * 450 * rpp, RppScale)
    IN  transport + car_add

healthcare_of(b, c, i, rpp) ==
    Fix(b.healthcare * adult_health_scale(i) * multipliers(i).insurance_mult * rpp,
        MultScale * MultScale * RppScale)
    + Fix(c.healthcare_per_child * i.kids * rpp, RppScale)

childcare_at_least_one_child(c, i, rpp) ==
    Fix(c.childcare_per_child * Max(i.kids, 1) * rpp, RppScale)

childcare_of(c, i, rpp) ==
    IF i.kids > 0 THEN Fix(c.childcare_per_child * i.kids * rpp, RppScale) ELSE 0

misc_of(b, i, rpp) ==
    LET misc0 == b.misc * adult_misc_scale(i) * rpp
        misc1 == IF i.gym THEN misc0 + 45 * rpp * MultScale ELSE misc0
    IN  Fix(misc1 * multipliers(i).entertainment_mult, MultScale * MultScale * RppScale)

travel_unscaled(i, rpp) == Fix(multipliers(i).travel_add, 1)

travel_of(i, rpp) == Fix(multipliers(i).travel_add * rpp, RppScale)

estimate_monthly_cost(i, index, base) ==
    LET b == base.monthly_usd_single_adult
        c == base.child_monthly
        rpp == rpp_of(index)
        cats == [k \in Categories |->
                    CASE k = "Housing" -> housing_of(b, i, rpp)
                      [] k = "Utilities" -> utilities_of(b, i, rpp)
                      [] k = "Groceries" -> groceries_of(b, c, i, rpp)
                      [] k = "Dining Out" -> dining_of(b, i, rpp)
                      [] k = "Transportation" -> transport_of(b, i, rpp)
                      [] k = "Healthcare" -> healthcare_of(b, c, i, rpp)
                      [] k = "Childcare" -> childcare_of(c, i, rpp)
                      [] k = "Misc" -> misc_of(b, i, rpp)
                      [] k = "Travel" -> travel_of(i, rpp)]
    IN  cats @@ ("Total" :> SumValues(cats, Len(CategoryOrder)))

(************************ the estimation process ****************************)
NoResult == [pending |-> TRUE]

Deviations(i) == Cardinality({f \in Fields : i[f] # NeutralProfile[f]})

\* the profiles that differ from the neutral one in at most n fields
ProfilesWithin(n) == {i \in Inputs : Deviations(i) <= n}

IncomeIdle ==
    /\ monthly_cost = 0
    /\ savings_rate = 0
    /\ effective_tax_rate = 0
    /\ buffer = 0
    /\ income = NoResult

RppIdle ==
    /\ df = [columns |-> <<>>, rows |-> <<>>]
    /\ state_name = <<>>
    /\ rpp_result = NoResult

InitCost ==
    /\ inp \in ProfilesWithin(MaxDeviations)
    /\ rpp_index \in Indices
    /\ basket_file \in Baskets
    /\ out = NoResult
    /\ loads = 0
    /\ IncomeIdle
    /\ RppIdle

\* one call estimate_monthly_cost(inp, rpp_index)
Estimate ==
    /\ loads < MaxCalls
    /\ loads' = loads + 1
    /\ out' = estimate_monthly_cost(inp, rpp_index, load_base_basket)
    /\ UNCHANGED <<inp, rpp_index, basket_file>>
    /\ UNCHANGED <<incomeVars, rppVars>>

NextCost == Estimate

SpecCost == InitCost /\ [][NextCost]_vars


(********************** exact rational arithmetic ***************************)
Abs(x) == IF x < 0 THEN -x ELSE x

RECURSIVE GCD(_, _)
GCD(a, b) == IF b = 0 THEN a ELSE GCD(b, a % b)

\* the rational n/d in lowest terms, d > 0
Rat(n, d) ==
    LET g == GCD(Abs(n), Abs(d))
        sgn == IF d < 0 THEN -1 ELSE 1
    IN  [n |-> sgn * (n \div g), d |-> sgn * (d \div g)]

Whole(k) == Rat(k, 1)
Percent(p) == Rat(p, 100)

RatAdd(x, y) ==
    LET g == GCD(x.d, y.d)
    IN  Rat(x.n * (y.d \div g) + y.n * (x.d \div g), x.d * (y.d \div g))
RatSub(x, y) == RatAdd(x, [n |-> -y.n, d |-> y.d])
RatMul(x, y) ==
    LET a == Rat(x.n, y.d)
        b == Rat(y.n, x.d)
    IN  Rat(a.n * b.n, a.d * b.d)
RatDiv(x, y) == RatMul(x, Rat(y.d, y.n))
RatLeq(x, y) ==
    LET g == GCD(x.d, y.d)
    IN  x.n * (y.d \div g) <= y.n * (x.d \div g)
RatLess(x, y) == ~RatLeq(y, x)
RatMax(x, y) == IF RatLeq(y, x) THEN x ELSE y
RatMin(x, y) == IF RatLeq(x, y) THEN x ELSE y

(************************* recommend_income *********************************)
Infinity == [inf |-> TRUE]
ValueError == [raised |-> "ValueError"]

expenses_adjusted_of(cost, buf) ==
    RatMul(cost, RatAdd(Whole(1), RatMax(buf, Whole(0))))

savings_guardrail_no_floor(s) == RatMin(s, Percent(80))

savings_guardrail(s) == RatMin(RatMax(s, Whole(0)), Percent(80))

tax_guardrail(t) == RatMin(RatMax(t, Whole(0)), Percent(60))

net_needed_of(expenses_adjusted, s) ==
    RatDiv(expenses_adjusted, RatSub(Whole(1), s))

gross_needed_as_markup(net_needed, t) ==
    RatMul(net_needed, RatAdd(Whole(1), t))

gross_needed_of(net_needed, t) ==
    IF RatLess(t, Whole(1))
    THEN RatDiv(net_needed, RatSub(Whole(1), t))
    ELSE Infinity

times12(x) == IF x = Infinity THEN Infinity ELSE RatMul(x, Whole(12))

recommend_income(cost, savings, tax, buf) ==
    LET expenses_adjusted == expenses_adjusted_of(cost, buf)
        s == savings_guardrail(savings)
        t == tax_guardrail(tax)
        net_needed == net_needed_of(expenses_adjusted, s)
        gross_needed == gross_needed_of(net_needed, t)
    IN  IF RatLeq(Whole(1), s)
        THEN ValueError
        ELSE [expenses_adjusted |-> expenses_adjusted,
              net_monthly |-> net_needed,
              gross_monthly |-> gross_needed,
              gross_annual |-> times12(gross_needed)]

(********************** calls of recommend_income ***************************)
Costs == {0, 1, 2950, 4425}
SavingsRates == {-10, 0, 15, 50, 80, 90, 100, 120}
TaxRates == {-10, 0, 22, 60, 70, 100}
Buffers == {-5, 0, 5, 150}

CostIdle ==
    /\ inp = NeutralProfile
    /\ rpp_index = 100
    /\ basket_file = [monthly_usd_single_adult |-> ScenarioAdult,
                      child_monthly |-> ChildA]
    /\ out = NoResult
    /\ loads = 0

InitIncome ==
    /\ monthly_cost \in Costs
    /\ savings_rate \in SavingsRates
    /\ effective_tax_rate \in TaxRates
    /\ buffer \in Buffers
    /\ income = NoResult
    /\ CostIdle
    /\ RppIdle

\* one call recommend_income(monthly_cost, savings_rate, effective_tax_rate, buffer)
Recommend ==
    /\ income = NoResult
    /\ income' = recommend_income(Whole(monthly_cost), Percent(savings_rate),
                                  Percent(effective_tax_rate), Percent(buffer))
    /\ UNCHANGED <<monthly_cost, savings_rate, effective_tax_rate, buffer>>
    /\ UNCHANGED <<costVars, rppVars>>

NextIncome == Recommend

SpecIncome == InitIncome /\ [][NextIncome]_vars

(******************************* rpp.py *************************************)
\* Strings are sequences of one-character strings; index values and table
\* cells are counted in tenths of an index point.
Uppers == <<"A", "B", "C", "D", "E", "F", "G", "H", "I", "J", "K", "L", "M", "N", "O", "P", "Q", "R", "S", "T", "U", "V", "W", "X", "Y", "Z">>
Lowers == <<"a", "b", "c", "d", "e", "f", "g", "h", "i", "j", "k", "l", "m", "n", "o", "p", "q", "r", "s", "t", "u", "v", "w", "x", "y", "z">>

lower_map ==
    [c \in {Uppers[n] : n \in 1..Len(Uppers)} |->
        Lowers[CHOOSE n \in 1..Len(Uppers) : Uppers[n] = c]]

lower_char(c) == IF c \in DOMAIN lower_map THEN lower_map[c] ELSE c

\* str.lower()
lower(str) == [n \in 1..Len(str) |-> lower_char(str[n])]

\* str.strip()
strip(str) ==
    LET keep == {n \in 1..Len(str) : str[n] # " "}
    IN  IF keep = {} THEN <<>>
        ELSE LET first == CHOOSE n \in keep : \A k \in keep : n <= k
                 last == CHOOSE n \in keep : \A k \in keep : k <= n
             IN  SubSeq(str, first, last)

\* substring test ("x in s" and str.contains on names without regex characters)
contains(str, sub) ==
    \E k \in 0..(Len(str) - Len(sub)) : SubSeq(str, k + 1, k + Len(sub)) = sub

FALLBACK_RPP ==
    (<<"D", "i", "s", "t", "r", "i", "c", "t", " ", "o", "f", " ", "C", "o", "l", "u", "m", "b", "i", "a">> :> 1108)
    @@ (<<"C", "a", "l", "i", "f", "o", "r", "n", "i", "a">> :> 1126)
    @@ (<<"N", "e", "w", " ", "J", "e", "r", "s", "e", "y">> :> 1089)
    @@ (<<"H", "a", "w", "a", "i", "i">> :> 1086)
    @@ (<<"M", "i", "s", "s", "i", "s", "s", "i", "p", "p", "i">> :> 873)
    @@ (<<"A", "r", "k", "a", "n", "s", "a", "s">> :> 865)
    @@ (<<"S", "o", "u", "t", "h", " ", "D", "a", "k", "o", "t", "a">> :> 881)

\* a float: a number in tenths, or NaN
Float(v) == [nan |-> FALSE, v |-> v]
NaN == [nan |-> TRUE, v |-> 0]

\* a cell is text or a number
TextCell(str) == [text |-> str]
NumCell(v) == [num |-> v]
IsNum(cell) == "num" \in DOMAIN cell

\* pd.to_numeric(cell, errors="coerce"): the texts of the tables are not numerals
to_numeric(cell) == IF IsNum(cell) THEN Float(cell.num) ELSE NaN

\* astype(str) of a cell of the state column
astype_str(cell) == IF IsNum(cell) THEN <<"#">> ELSE cell.text

\* a <= b on floats: false when either side is NaN
float_leq(a, b) == ~a.nan /\ ~b.nan /\ a.v <= b.v

in_range_lower_bound_only(val) == float_leq(Float(500), val)

in_range(val) == float_leq(Float(500), val) /\ float_leq(val, Float(2000))

MinOf(S) == CHOOSE n \in S : \A k \in S : n <= k
MaxOf(S) == CHOOSE n \in S : \A k \in S : k <= n

\* positions of the columns whose lower-cased name contains "state"
state_keys(t) ==
    {n \in 1..Len(t.columns) : contains(lower(t.columns[n]), <<"s", "t", "a", "t", "e">>)}

\* cols[key] for the first such key: the last column with that lower-cased name
state_col_of(t) ==
    LET first == MinOf(state_keys(t))
    IN  MaxOf({n \in 1..Len(t.columns) :
                 lower(t.columns[n]) = lower(t.columns[first])})

\* pd.to_numeric(df[c], errors="coerce").notna().mean() > 0.6
mostly_numeric(t, c) ==
    LET filled == {r \in 1..Len(t.rows) : to_numeric(t.rows[r][c]) # NaN}
    IN  Len(t.rows) > 0 /\ 10 * Cardinality(filled) > 6 * Len(t.rows)

numeric_cols_of(t, state_col) ==
    {c \in 1..Len(t.columns) :
        t.columns[c] # t.columns[state_col] /\ mostly_numeric(t, c)}

exact_match(t, state_col, name) ==
    LET wanted == lower(strip(name))
    IN  {r \in 1..Len(t.rows) :
            lower(strip(astype_str(t.rows[r][state_col]))) = wanted}

contains_match(t, state_col, name) ==
    LET wanted == lower(strip(name))
    IN  {r \in 1..Len(t.rows) :
            contains(lower(astype_str(t.rows[r][state_col])), wanted)}

match_of(t, state_col, name) ==
    LET match == exact_match(t, state_col, name)
    IN  IF match = {} THEN contains_match(t, state_col, name) ELSE match

fallback_of(name) ==
    IF name \in DOMAIN FALLBACK_RPP THEN Float(FALLBACK_RPP[name]) ELSE Float(1000)

Raised(msg) == [raised |-> "ValueError", msg |-> msg]
ReturnedValue(v) == [value |-> v]

get_state_rpp(t, name) ==
    IF state_keys(t) = {} THEN Raised("State column not found in RPP table.")
    ELSE LET state_col == state_col_of(t)
             numeric_cols == numeric_cols_of(t, state_col)
         IN  IF numeric_cols = {} THEN Raised("No numeric RPP column detected.")
             ELSE LET rpp_col == MinOf(numeric_cols)
                      match == match_of(t, state_col, name)
                  IN  IF match = {} THEN Raised("State not found in RPP table.")
                      ELSE LET val == to_numeric(t.rows[MinOf(match)][rpp_col])
                           IN  IF ~in_range(val)
                               THEN ReturnedValue(fallback_of(name))
                               ELSE ReturnedValue(val)

(************************ calls of get_state_rpp ****************************)
Col_State == <<"S", "t", "a", "t", "e">>
Col_RPP == <<"R", "P", "P">>
Col_GeoName == <<"G", "e", "o", "N", "a", "m", "e">>
Col_UnitedStates == <<"U", "n", "i", "t", "e", "d", " ", "S", "t", "a", "t", "e", "s">>

California == <<"C", "a", "l", "i", "f", "o", "r", "n", "i", "a">>
Texas == <<"T", "e", "x", "a", "s">>

\* the layouts: column names and the position of the name in a row
Layouts == {[columns |-> <<Col_State, Col_RPP>>, name_first |-> TRUE],
            [columns |-> <<Col_RPP, Col_UnitedStates>>, name_first |-> FALSE],
            [columns |-> <<Col_GeoName, Col_RPP>>, name_first |-> TRUE]}

CellNames == {California, <<" ", "T", "E", "X", "A", "S", " ">>}
CellValues == {TextCell(<<"n", "/", "a">>), NumCell(499), NumCell(500), NumCell(2000),
               NumCell(2001)}

StateNames == {California, <<"c", "a", "l", "i", "f", "o", "r", "n", "i", "a">>,
               <<" ", "C", "a", "l", " ">>, Texas}

RowsOf(layout) ==
    {IF layout.name_first THEN <<TextCell(nv[1]), nv[2]>>
                          ELSE <<nv[2], TextCell(nv[1])>> :
        nv \in CellNames \X CellValues}

\* the tables of n rows
TablesOf(n) ==
    UNION {{[columns |-> layout.columns, rows |-> rows] :
               rows \in [1..n -> RowsOf(layout)]} : layout \in Layouts}

InitRpp ==
    /\ df \in TablesOf(NumRows)
    /\ state_name \in StateNames
    /\ rpp_result = NoResult
    /\ CostIdle
    /\ IncomeIdle

\* one call get_state_rpp(df, state_name)
Resolve ==
    /\ rpp_result = NoResult
    /\ rpp_result' = get_state_rpp(df, state_name)
    /\ UNCHANGED <<df, state_name>>
    /\ UNCHANGED <<costVars, incomeVars>>

NextRpp == Resolve

SpecRpp == InitRpp /\ [][NextRpp]_vars

(******************* properties of estimate_monthly_cost ********************)
Estimated == out # NoResult

\* the mapping a call with the request's basket would return
OutAt(i, index) == estimate_monthly_cost(i, index, basket_file)

\* C1: the returned mapping has exactly the nine category keys plus Total,
\* and Total equals the sum of the nine category amounts.
C1_NineKeysAndTotal ==
    Estimated =>
        /\ DOMAIN out = {"Housing", "Utilities", "Groceries", "Dining Out",
                         "Transportation", "Healthcare", "Childcare", "Misc",
                         "Travel", "Total"}
        /\ out["Total"] = out["Housing"] + out["Utilities"] + out["Groceries"]
                          + out["Dining Out"] + out["Transportation"]
                          + out["Healthcare"] + out["Childcare"] + out["Misc"]
                          + out["Travel"]

C1_Witness ==
    /\ Estimated
    /\ \A k \in Categories : out[k] > 0
    /\ out["Total"] > out["Housing"] + out["Childcare"]

\* C2: with kids = 0 Childcare is exactly 0, Groceries and Healthcare equal
\* their adult-only terms, the Utilities factor has no kids term, and the
\* result is the same for every per-child basket.
C2_NoKidsNoChildAddOns ==
    (Estimated /\ inp.kids = 0) =>
        LET b == basket_file.monthly_usd_single_adult
            m == multipliers(inp)
            ea == inp.adults - 1
        IN  /\ out["Childcare"] = 0
            /\ out["Groceries"]
                 = b.groceries * (20 + 14 * ea) * m.groceries_mult * rpp_index
                   * (Money \div (MultScale * MultScale * 100))
            /\ out["Healthcare"]
                 = b.healthcare * (20 + 11 * ea) * m.insurance_mult * rpp_index
                   * (Money \div (MultScale * MultScale * 100))
            /\ out["Utilities"]
                 = b.utilities * (20 + 7 * ea) * rpp_index
                   * (Money \div (MultScale * 100))
            /\ \A c \in {ChildA, ChildB, [k \in ChildKeys |-> 0]} :
                 estimate_monthly_cost(inp, rpp_index,
                     [basket_file EXCEPT !.child_monthly = c]) = out

C2_Witness ==
    /\ Estimated
    /\ inp.kids = 0
    /\ inp.adults = 2
    /\ basket_file.child_monthly = ChildA
    /\ out["Groceries"] > 0
    /\ out["Childcare"] = 0

\* C3: for the neutral profile each of Housing, Utilities, Groceries, Dining
\* Out, Transportation, Healthcare, Misc is its base value times index/100
\* and Childcare = Travel = 0; with the scenario basket Total is 2950 at
\* index 100 and every category is scaled by 1.5 with Total 4425 at index 150.
C3_NeutralScenario ==
    (Estimated /\ inp = NeutralProfile) =>
        LET b == basket_file.monthly_usd_single_adult
            Scaled(v) == v * rpp_index * (Money \div 100)
            Dollars(v) == v * Money
        IN  /\ out["Housing"] = Scaled(b.housing_1br)
            /\ out["Utilities"] = Scaled(b.utilities)
            /\ out["Groceries"] = Scaled(b.groceries)
            /\ out["Dining Out"] = Scaled(b.dining_out_base)
            /\ out["Transportation"] = Scaled(b.transport_base)
            /\ out["Healthcare"] = Scaled(b.healthcare)
            /\ out["Misc"] = Scaled(b.misc)
            /\ out["Childcare"] = 0
            /\ out["Travel"] = 0
            /\ (b = ScenarioAdult /\ rpp_index = 100) =>
                 /\ out["Housing"] = Dollars(1500)
                 /\ out["Utilities"] = Dollars(150)
                 /\ out["Groceries"] = Dollars(400)
                 /\ out["Dining Out"] = Dollars(250)
                 /\ out["Transportation"] = Dollars(150)
                 /\ out["Healthcare"] = Dollars(300)
                 /\ out["Misc"] = Dollars(200)
                 /\ out["Total"] = Dollars(2950)
            /\ (b = ScenarioAdult /\ rpp_index = 150) =>
                 /\ 2 * out["Housing"] = 3 * Dollars(1500)
                 /\ 2 * out["Utilities"] = 3 * Dollars(150)
                 /\ 2 * out["Groceries"] = 3 * Dollars(400)
                 /\ 2 * out["Dining Out"] = 3 * Dollars(250)
                 /\ 2 * out["Transportation"] = 3 * Dollars(150)
                 /\ 2 * out["Healthcare"] = 3 * Dollars(300)
                 /\ 2 * out["Misc"] = 3 * Dollars(200)
                 /\ out["Total"] = Dollars(4425)

C3_Witness ==
    /\ Estimated
    /\ inp = NeutralProfile
    /\ basket_file.monthly_usd_single_adult = ScenarioAdult
    /\ rpp_index = 150
    /\ out["Total"] = 4425 * Money

\* C4 as claimed: for indices i1 < i2 every category that is non-zero at i1
\* is strictly larger at i2, and Total is strictly larger at i2.
C4_AsClaimed ==
    Estimated =>
        \A i2 \in Indices :
            rpp_index < i2 =>
                LET out2 == OutAt(inp, i2)
                IN  /\ \A k \in Categories : out[k] # 0 => out2[k] > out[k]
                    /\ out2["Total"] > out["Total"]

\* C4 amended: for indices i1 < i2 every amount of the mapping, Total
\* included, that is non-zero at i1 is strictly larger at i2; an amount that
\* is zero at i1 is zero at i2.
C4_ScalingMonotone ==
    Estimated =>
        \A i2 \in Indices :
            rpp_index < i2 =>
                LET out2 == OutAt(inp, i2)
                IN  \A k \in DOMAIN out :
                        /\ out[k] # 0 => out2[k] > out[k]
                        /\ out[k] = 0 => out2[k] = 0

C4_Witness ==
    /\ Estimated
    /\ rpp_index = 100
    /\ inp.travel = "Occasional"
    /\ OutAt(inp, 150)["Travel"] > out["Travel"]
    /\ OutAt(inp, 150)["Total"] > out["Total"]
    /\ out["Childcare"] = 0

SixCategories == {"Groceries", "Misc", "Healthcare", "Utilities", "Dining Out",
                  "Transportation"}

BaseOf(k) ==
    LET b == basket_file.monthly_usd_single_adult
    IN  CASE k = "Groceries" -> b.groceries
          [] k = "Misc" -> b.misc
          [] k = "Healthcare" -> b.healthcare
          [] k = "Utilities" -> b.utilities
          [] k = "Dining Out" -> b.dining_out_base
          [] k = "Transportation" -> b.transport_base

TwoAdults == [inp EXCEPT !.adults = 2]

\* C5 as claimed: changing adults from 1 to 2, all else fixed, strictly
\* increases each of Groceries, Misc, Healthcare, Utilities, Dining Out and
\* Transportation.
C5_AsClaimed ==
    (Estimated /\ inp.adults = 1) =>
        LET out2 == OutAt(TwoAdults, rpp_index)
        IN  \A k \in SixCategories : out2[k] > out[k]

\* C5 amended: changing adults from 1 to 2, all else fixed, strictly increases
\* each of the six categories whose base basket value is positive and leaves
\* unchanged each whose base basket value is 0.
C5_HouseholdSizeMonotone ==
    (Estimated /\ inp.adults = 1) =>
        LET out2 == OutAt(TwoAdults, rpp_index)
        IN  \A k \in SixCategories :
                /\ BaseOf(k) > 0 => out2[k] > out[k]
                /\ BaseOf(k) = 0 => out2[k] = out[k]

C5_Witness ==
    /\ Estimated
    /\ inp.adults = 1
    /\ inp.kids = 1
    /\ inp.cars = 1
    /\ basket_file.monthly_usd_single_adult = ScenarioAdult
    /\ LET out2 == OutAt(TwoAdults, rpp_index)
       IN  \A k \in SixCategories : out2[k] > out[k]

\* C10: over any sequence of estimation requests in one process, the base
\* basket is loaded at most once.
C10_BasketLoadedAtMostOnce == loads <= 1

(********************* properties of recommend_income ***********************)
Recommended == income # NoResult
Returned == Recommended /\ income # ValueError

OneMinus(p) == Rat(100 - p, 100)

RoundTrip(s, t) ==
    /\ Returned
    /\ income.gross_monthly # Infinity
    /\ RatMul(RatMul(income.gross_monthly, OneMinus(t)), OneMinus(s))
         = Whole(monthly_cost)
    /\ RatMul(income.net_monthly, OneMinus(s)) = income.expenses_adjusted
    /\ RatMul(income.gross_monthly, OneMinus(t)) = income.net_monthly

\* C6 as claimed: with buffer 0, for every savings rate s < 0.80 and tax rate
\* t < 0.60, gross_monthly * (1 - t) * (1 - s) = cost, net_monthly * (1 - s) =
\* expenses_adjusted and gross_monthly * (1 - t) = net_monthly.
C6_AsClaimed ==
    (Recommended /\ buffer = 0 /\ savings_rate < 80 /\ effective_tax_rate < 60)
        => RoundTrip(savings_rate, effective_tax_rate)

\* C6 amended: with buffer 0, for every savings rate 0 <= s < 0.80 and tax
\* rate 0 <= t < 0.60, gross_monthly * (1 - t) * (1 - s) = cost, net_monthly *
\* (1 - s) = expenses_adjusted and gross_monthly * (1 - t) = net_monthly.
C6_RoundTrip ==
    (/\ Recommended
     /\ buffer = 0
     /\ 0 <= savings_rate /\ savings_rate < 80
     /\ 0 <= effective_tax_rate /\ effective_tax_rate < 60)
        => RoundTrip(savings_rate, effective_tax_rate)

C6_Witness ==
    /\ Returned
    /\ buffer = 0
    /\ savings_rate = 15
    /\ effective_tax_rate = 22
    /\ monthly_cost = 2950
    /\ RatLess(Whole(monthly_cost), income.gross_monthly)

\* C7: a call with a savings rate >= 1.0 ends in the ValueError outcome and
\* returns no recommendation.
C7_InvalidRateGuard ==
    (Recommended /\ savings_rate >= 100) => income = ValueError

\* C8: the result equals the result for the clamped inputs (savings rate in
\* [0, 0.80], tax rate in [0, 0.60], buffer >= 0 with no upper clamp); the
\* divisors are at least 0.20 and 0.40; for monthly cost >= 0 all four outputs
\* are finite and non-negative with expenses_adjusted <= net_monthly <=
\* gross_monthly.
C8_Clamping ==
    Recommended =>
        LET s == IF savings_rate < 0 THEN 0
                 ELSE IF savings_rate > 80 THEN 80 ELSE savings_rate
            t == IF effective_tax_rate < 0 THEN 0
                 ELSE IF effective_tax_rate > 60 THEN 60 ELSE effective_tax_rate
            b == IF buffer < 0 THEN 0 ELSE buffer
        IN  /\ Returned
            /\ income = recommend_income(Whole(monthly_cost), Percent(s),
                                         Percent(t), Percent(b))
            /\ income.expenses_adjusted = Rat(monthly_cost * (100 + b), 100)
            /\ income.gross_monthly # Infinity
            /\ income.gross_annual # Infinity
            /\ RatMul(income.net_monthly, OneMinus(s)) = income.expenses_adjusted
            /\ RatMul(income.gross_monthly, OneMinus(t)) = income.net_monthly
            /\ monthly_cost >= 0 =>
                 /\ RatLeq(Whole(0), income.expenses_adjusted)
                 /\ RatLeq(income.expenses_adjusted, income.net_monthly)
                 /\ RatLeq(income.net_monthly, income.gross_monthly)
                 /\ RatLeq(Whole(0), income.gross_annual)
                 /\ RatLeq(income.net_monthly,
                           RatMul(Whole(5), income.expenses_adjusted))
                 /\ RatLeq(RatMul(Whole(2), income.gross_monthly),
                           RatMul(Whole(5), income.net_monthly))

C8_Witness ==
    /\ Returned
    /\ savings_rate = 120
    /\ effective_tax_rate = 100
    /\ buffer = 150
    /\ monthly_cost = 2950
    /\ income.net_monthly = RatMul(Whole(5), income.expenses_adjusted)

(*********************** properties of get_state_rpp ************************)
Resolved == rpp_result # NoResult
ResolvedValue == Resolved /\ "value" \in DOMAIN rpp_result

\* the value of the matched row in the RPP column, when the call gets that far
MatchedValue ==
    LET state_col == state_col_of(df)
    IN  to_numeric(df.rows[MinOf(match_of(df, state_col, state_name))]
                          [MinOf(numeric_cols_of(df, state_col))])

=============================================================================
